---- MODULE Spec2Model ----
(***************************************************************************)
(* Thrust allocation of riptide_controllers/src/thruster_controller.cpp.   *)
(*                                                                         *)
(* The node keeps the vehicle state written by the inertial handler        *)
(* (rotation_matrix, ang_v), the acceleration command written by the       *)
(* command handler (cmdSurge .. cmdYaw), ten thruster-force unknowns, and  *)
(* the stamped thrust message it publishes after every solve.              *)
(*                                                                         *)
(* Doubles are modelled in fixed point:                                    *)
(*   force                 0.1 N        (MAX_THRUST = 5.0 N  -> 50)        *)
(*   position              0.01 m                                          *)
(*   angular velocity      1 rad/s                                         *)
(*   acceleration          0.001 m/s^2, 0.001 rad/s^2                      *)
(*   moments of inertia    0.0001 kg*m^2                                   *)
(*   mass                  0.0000001 kg                                    *)
(* and a double that is not finite is the value NaN.                       *)
(***************************************************************************)
EXTENDS Integers, Sequences, FiniteSets

VARIABLES
  pos,              \* pos_<thruster>: thruster positions read at start-up
  rotation_matrix,  \* tf::Matrix3x3 rotation_matrix
  ang_v,            \* tf::Vector3 ang_v
  cmd,              \* cmdSurge, cmdSway, cmdHeave, cmdRoll, cmdPitch, cmdYaw
  unknown,          \* the ten members surge_port_hi .. heave_stbd_aft
  summary,          \* ceres::Solver::Summary of the solve in progress
  thrust,           \* riptide_msgs::ThrustStamped thrust (force part)
  cmd_pub,          \* publisher "command/thrust": messages sent, last message
  pc,               \* where the single-threaded spinner is
  received,         \* number of command/accel events dispatched so far
  ref               \* history: one earlier solve, remembered for comparison

vars == <<pos, rotation_matrix, ang_v, cmd, unknown, summary, thrust, cmd_pub,
          pc, received, ref>>

(***************************************************************************)
(* Bounds of the model.                                                    *)
(***************************************************************************)
\* Number of command events dispatched in one behaviour.
MaxEvents == 2

\* Residuals at most this far from zero (0.001 units) count as zero: one
\* lattice step of force changes a residual by less than this.
Tolerance == 40

(***************************************************************************)
(* Program constants.                                                      *)
(***************************************************************************)
MIN_THRUST == -50
MAX_THRUST == 50
MASS == 344794095
Ixx == 13350
Iyy == 15010
Izz == 6189

\* A double that is not a finite number (NaN, or the result of 0/0).
NaN == 999999999

\* Mutant: the iteration cap is set a hundred times too high.
max_num_iterations_High == 100 * 100

\* options.max_num_iterations
max_num_iterations == 100

\* The ten unknowns, in the order main's surge block lists them.
Thrusters ==
  << "surge_port_hi", "surge_stbd_hi", "surge_port_lo", "surge_stbd_lo",
     "sway_fwd", "sway_aft",
     "heave_port_fwd", "heave_stbd_fwd", "heave_port_aft", "heave_stbd_aft" >>

ThrusterNames == { Thrusters[i] : i \in 1..Len(Thrusters) }

(***************************************************************************)
(* Fixed-point arithmetic.                                                 *)
(***************************************************************************)
\* a / b rounded to the nearest unit, b > 0.
Quot(a, b) ==
  IF a >= 0 THEN (2 * a + b) \div (2 * b)
            ELSE -((2 * (-a) + b) \div (2 * b))

IsFinite(v) == v # NaN

AllFinite(vs) == \A i \in 1..Len(vs) : IsFinite(vs[i])

\* The fields of a struct vector / tf::Vector3 kept as <<x, y, z>>.
X(v) == v[1]
Y(v) == v[2]
Z(v) == v[3]

(***************************************************************************)
(* Inputs.                                                                 *)
(***************************************************************************)
\* Thruster positions (0.01 m, relative to the centre of mass) as the tf
\* lookups of the constructor can deliver them.
GeomSymmetric ==
  [t \in ThrusterNames |->
     CASE t = "surge_port_hi"  -> << -10,  20,  10 >>
       [] t = "surge_stbd_hi"  -> << -10, -20,  10 >>
       [] t = "surge_port_lo"  -> << -10,  20, -10 >>
       [] t = "surge_stbd_lo"  -> << -10, -20, -10 >>
       [] t = "sway_fwd"       -> <<  40,   0,   0 >>
       [] t = "sway_aft"       -> << -40,   0,   0 >>
       [] t = "heave_port_fwd" -> <<  30,  20,   0 >>
       [] t = "heave_stbd_fwd" -> <<  30, -20,   0 >>
       [] t = "heave_port_aft" -> << -30,  20,   0 >>
       [] OTHER                -> << -30, -20,   0 >> ]

GeomAsymmetric ==
  [t \in ThrusterNames |->
     CASE t = "surge_port_hi"  -> << -10,  20,  10 >>
       [] t = "surge_stbd_hi"  -> << -10, -20,  10 >>
       [] t = "surge_port_lo"  -> << -10,  20, -10 >>
       [] t = "surge_stbd_lo"  -> << -10, -10,  -5 >>
       [] t = "sway_fwd"       -> <<  40,   0,   0 >>
       [] t = "sway_aft"       -> << -40,   0,   0 >>
       [] t = "heave_port_fwd" -> <<  30,  15,   0 >>
       [] t = "heave_stbd_fwd" -> <<  20, -20,   0 >>
       [] t = "heave_port_aft" -> << -30,  20,   0 >>
       [] OTHER                -> << -30, -20,   0 >> ]

Geometries == { GeomSymmetric, GeomAsymmetric }

\* Values the ten members can hold before the first command: the
\* constructor never assigns them.
Indeterminate == { 0, 7 }

\* sensor_msgs::Imu: orientation <<x, y, z, w>>, angular_velocity <<x, y, z>>.
Imu(q, w) == [orientation |-> q, angular_velocity |-> w]

ImuMsgs ==
  { Imu(<<0, 0, 0, 1>>, <<0, 0, 0>>),      \* identity
    Imu(<<0, 1, 0, 1>>, <<0, 0, 0>>),      \* 90 degrees about y, not unit
    Imu(<<0, 0, 0, 1>>, <<1, 1, 1>>),      \* spinning
    Imu(<<0, 0, 0, 0>>, <<0, 0, 0>>) }     \* zero quaternion

\* geometry_msgs::Accel: linear <<x, y, z>>, angular <<x, y, z>>.
Accel(l, a) == [linear |-> l, angular |-> a]

AccelMsgs ==
  { Accel(<<0, 0, 0>>, <<0, 0, 0>>),        \* all zero
    Accel(<<1000, 0, 0>>, <<0, 0, 0>>),     \* surge 1.0 m/s^2
    Accel(<<0, 100, 0>>, <<30, 0, 0>>),     \* sway 0.1 m/s^2, roll 0.03 rad/s^2
    Accel(<<NaN, 0, 0>>, <<0, 0, 0>>) }     \* NaN surge

MalformedImu(msg) ==
  ~AllFinite(msg.orientation) \/ ~AllFinite(msg.angular_velocity)
  \/ msg.orientation = <<0, 0, 0, 0>>

MalformedAccel(a) == ~AllFinite(a.linear) \/ ~AllFinite(a.angular)

(***************************************************************************)
(* void ThrusterController::state: the rotation matrix of the normalised   *)
(* quaternion.  tf::Quaternion::normalized divides by the length and       *)
(* tf::Matrix3x3::setRotation computes s = 2 / length2 and the nine        *)
(* entries from the products of the components; a zero or non-finite       *)
(* quaternion makes every entry 0/0.  The orientations of ImuMsgs are      *)
(* those whose entries are whole numbers.                                  *)
(***************************************************************************)
length2(q) == q[1] * q[1] + q[2] * q[2] + q[3] * q[3] + q[4] * q[4]

NaNMatrix == << <<NaN, NaN, NaN>>, <<NaN, NaN, NaN>>, <<NaN, NaN, NaN>> >>

setRotation(q) ==
  IF ~AllFinite(q) \/ length2(q) = 0
  THEN NaNMatrix
  ELSE LET d  == length2(q)
           x  == q[1]
           y  == q[2]
           z  == q[3]
           w  == q[4]
       IN << << Quot(d - 2 * (y * y + z * z), d),
                Quot(2 * (x * y - w * z), d),
                Quot(2 * (x * z + w * y), d) >>,
             << Quot(2 * (x * y + w * z), d),
                Quot(d - 2 * (x * x + z * z), d),
                Quot(2 * (y * z - w * x), d) >>,
             << Quot(2 * (x * z - w * y), d),
                Quot(2 * (y * z + w * x), d),
                Quot(d - 2 * (x * x + y * y), d) >> >>

\* rotation_matrix.getRow(i), rows counted from 0 as in the source.
getRow(i) == rotation_matrix[i + 1]

(***************************************************************************)
(* EQUATIONS: the six residual functors.  Each takes the unknowns its      *)
(* residual block was registered with and reads the globals.               *)
(***************************************************************************)
\* force (0.1 N) / MASS in 0.001 m/s^2.
PerMass(f) == Quot(f * 1000000, MASS \div 1000)

\* torque (0.0001 N*m) / I in 0.001 rad/s^2.
PerInertia(t, I) == Quot(t * 1000, I)

\* force (0.1 N) times lever arm (0.01 m) in 0.0001 N*m.
Moment(f, arm) == 10 * f * arm

\* Mutant: the surge equation also sums the two upper surge thrusters.
surge_AllFour(surge_port_hi, surge_stbd_hi, surge_port_lo, surge_stbd_lo, sway_fwd, sway_aft, heave_port_fwd, heave_stbd_fwd, heave_port_aft, heave_stbd_aft) ==
  IF ~(IsFinite(X(getRow(0))) /\ IsFinite(Z(getRow(0))) /\ IsFinite(cmd.Surge))
  THEN NaN
  ELSE PerMass(X(getRow(0)) * (surge_port_hi + surge_stbd_hi
                               + surge_port_lo + surge_stbd_lo)
               + Z(getRow(0)) * (heave_port_fwd + heave_stbd_fwd))
       - cmd.Surge

surge(surge_port_hi, surge_stbd_hi, surge_port_lo, surge_stbd_lo, sway_fwd, sway_aft, heave_port_fwd, heave_stbd_fwd, heave_port_aft, heave_stbd_aft) ==
  IF ~(IsFinite(X(getRow(0))) /\ IsFinite(Z(getRow(0))) /\ IsFinite(cmd.Surge))
  THEN NaN
  ELSE PerMass(X(getRow(0)) * (surge_port_lo + surge_stbd_lo)
               + Z(getRow(0)) * (heave_port_fwd + heave_stbd_fwd))
       - cmd.Surge

sway(surge_port_hi, surge_stbd_hi, surge_port_lo, surge_stbd_lo, sway_fwd, sway_aft, heave_port_fwd, heave_stbd_fwd, heave_port_aft, heave_stbd_aft) ==
  IF ~(IsFinite(X(getRow(1))) /\ IsFinite(Z(getRow(1))) /\ IsFinite(cmd.Sway))
  THEN NaN
  ELSE PerMass(X(getRow(1)) * (surge_port_lo + surge_stbd_lo)
               + Z(getRow(1)) * (heave_port_fwd + heave_stbd_fwd))
       - cmd.Sway

heave(surge_port_hi, surge_stbd_hi, surge_port_lo, surge_stbd_lo, sway_fwd, sway_aft, heave_port_fwd, heave_stbd_fwd, heave_port_aft, heave_stbd_aft) ==
  IF ~(IsFinite(X(getRow(2))) /\ IsFinite(Z(getRow(2))) /\ IsFinite(cmd.Heave))
  THEN NaN
  ELSE PerMass(X(getRow(2)) * (surge_port_lo + surge_stbd_lo)
               + Z(getRow(2)) * (heave_port_fwd + heave_stbd_fwd))
       - cmd.Heave

roll(sway_fwd, sway_aft, heave_port_fwd, heave_stbd_fwd, heave_port_aft, heave_stbd_aft) ==
  IF ~(IsFinite(Y(ang_v)) /\ IsFinite(Z(ang_v)) /\ IsFinite(cmd.Roll))
  THEN NaN
  ELSE PerInertia(Moment(heave_port_fwd, Y(pos["heave_port_fwd"]))
                  + Moment(heave_stbd_fwd, Y(pos["heave_stbd_fwd"]))
                  + Iyy * Y(ang_v) * Z(ang_v) - Izz * Y(ang_v) * Z(ang_v),
                  Ixx)
       - cmd.Roll

pitch(surge_port_hi, surge_stbd_hi, surge_port_lo, surge_stbd_lo, heave_port_fwd, heave_stbd_fwd, heave_port_aft, heave_stbd_aft) ==
  IF ~(IsFinite(X(ang_v)) /\ IsFinite(Z(ang_v)) /\ IsFinite(cmd.Pitch))
  THEN NaN
  ELSE PerInertia(Moment(surge_port_lo, Z(pos["surge_port_lo"]))
                  + Moment(surge_stbd_lo, Z(pos["surge_stbd_lo"]))
                  + Moment(heave_port_fwd, -X(pos["heave_port_fwd"]))
                  + Moment(heave_stbd_fwd, -X(pos["heave_stbd_fwd"]))
                  + Izz * X(ang_v) * Z(ang_v) - Ixx * X(ang_v) * Z(ang_v),
                  Iyy)
       - cmd.Pitch

yaw(surge_port_hi, surge_stbd_hi, surge_port_lo, surge_stbd_lo, sway_fwd, sway_aft) ==
  IF ~(IsFinite(X(ang_v)) /\ IsFinite(Y(ang_v)) /\ IsFinite(cmd.Yaw))
  THEN NaN
  ELSE PerInertia(Moment(surge_port_lo, -Y(pos["surge_port_lo"]))
                  + Moment(surge_stbd_lo, -Y(pos["surge_stbd_lo"]))
                  + Ixx * X(ang_v) * Y(ang_v) - Iyy * X(ang_v) * Y(ang_v),
                  Izz)
       - cmd.Yaw

(***************************************************************************)
(* PROBLEM SETUP: the six residual blocks with the parameter blocks each   *)
(* was given (the heave block receives heave_stbd_aft before               *)
(* heave_port_aft), and the bounds of the ten parameters.                  *)
(***************************************************************************)
Residuals(p) ==
  << surge(p["surge_port_hi"], p["surge_stbd_hi"], p["surge_port_lo"],
           p["surge_stbd_lo"], p["sway_fwd"], p["sway_aft"],
           p["heave_port_fwd"], p["heave_stbd_fwd"], p["heave_port_aft"],
           p["heave_stbd_aft"]),
     sway(p["surge_port_hi"], p["surge_stbd_hi"], p["surge_port_lo"],
          p["surge_stbd_lo"], p["sway_fwd"], p["sway_aft"],
          p["heave_port_fwd"], p["heave_stbd_fwd"], p["heave_port_aft"],
          p["heave_stbd_aft"]),
     heave(p["surge_port_hi"], p["surge_stbd_hi"], p["surge_port_lo"],
           p["surge_stbd_lo"], p["sway_fwd"], p["sway_aft"],
           p["heave_port_fwd"], p["heave_stbd_fwd"], p["heave_stbd_aft"],
           p["heave_port_aft"]),
     roll(p["sway_fwd"], p["sway_aft"], p["heave_port_fwd"],
          p["heave_stbd_fwd"], p["heave_port_aft"], p["heave_stbd_aft"]),
     pitch(p["surge_port_hi"], p["surge_stbd_hi"], p["surge_port_lo"],
           p["surge_stbd_lo"], p["heave_port_fwd"], p["heave_stbd_fwd"],
           p["heave_port_aft"], p["heave_stbd_aft"]),
     yaw(p["surge_port_hi"], p["surge_stbd_hi"], p["surge_port_lo"],
         p["surge_stbd_lo"], p["sway_fwd"], p["sway_aft"]) >>

\* problem.SetParameterLowerBound / SetParameterUpperBound of each unknown.
LowerBound(t) == MIN_THRUST

\* Mutant: the upper bound of surge_stbd_lo is never set.
UpperBound_Unset(t) ==
  IF t = "surge_stbd_lo" THEN 1000 * MAX_THRUST ELSE MAX_THRUST

UpperBound(t) == MAX_THRUST

(***************************************************************************)
(* ceres::Solve(options, &problem, &summary).  The minimiser is modelled   *)
(* on the lattice of forces: it evaluates the residuals at the point it    *)
(* holds and fails, leaving the unknowns as they were, when one is not     *)
(* finite; otherwise every iteration tries the steps of one lattice unit   *)
(* in each of the ten parameters, projected onto the parameter's bounds,   *)
(* and takes the one of least cost if it lowers the cost; it stops when    *)
(* no step lowers the cost or after options.max_num_iterations             *)
(* iterations.                                                             *)
(***************************************************************************)
Square(r) == r * r

SumOfSquares(r) ==
  Square(r[1]) + Square(r[2]) + Square(r[3])
  + Square(r[4]) + Square(r[5]) + Square(r[6])

\* The residuals are evaluated once for a point.
Cost(p) == CHOOSE c \in { SumOfSquares(r) : r \in {Residuals(p)} } : TRUE

IsEvaluationValid(p) == AllFinite(Residuals(p))

Project(t, v) ==
  IF v < LowerBound(t) THEN LowerBound(t)
  ELSE IF v > UpperBound(t) THEN UpperBound(t)
  ELSE v

\* The steps tried in one iteration: parameter and direction.
Steps == [k \in 1..(2 * Len(Thrusters)) |->
            << Thrusters[(k + 1) \div 2], IF k % 2 = 1 THEN 1 ELSE -1 >>]

Candidate(p, k) ==
  [p EXCEPT ![Steps[k][1]] = Project(Steps[k][1], @ + Steps[k][2])]

\* Every step with the cost of its candidate.
Trials(p) ==
  UNION { { <<k, Cost(q)>> : q \in {Candidate(p, k)} } : k \in 1..Len(Steps) }

\* The first step of least cost.
First(trials) ==
  CHOOSE b \in trials :
    \A t \in trials : b[2] < t[2] \/ (b[2] = t[2] /\ b[1] <= t[1])

BestStep(p) ==
  (CHOOSE b \in { First(trials) : trials \in {Trials(p)} } : TRUE)[1]

(***************************************************************************)
(* The node.                                                               *)
(***************************************************************************)
Identity == << <<1, 0, 0>>, <<0, 1, 0>>, <<0, 0, 1>> >>

Zero == [t \in ThrusterNames |-> 0]

NoSolve == [cmd |-> << >>]

\* ThrusterController::ThrusterController
Init ==
  /\ pos \in Geometries
  /\ rotation_matrix = Identity
  /\ ang_v = <<0, 0, 0>>
  /\ cmd = [Surge |-> 0, Sway |-> 0, Heave |-> 0,
            Roll |-> 0, Pitch |-> 0, Yaw |-> 0]
  /\ \E g \in Indeterminate : unknown = [t \in ThrusterNames |-> g]
  /\ summary = [num_iterations |-> 0, termination_type |-> "NONE"]
  /\ thrust = [force |-> Zero]
  /\ cmd_pub = [count |-> 0, last |-> [force |-> Zero]]
  /\ pc = "spin"
  /\ received = 0
  /\ ref = NoSolve

\* void ThrusterController::state(const sensor_msgs::Imu::ConstPtr &msg)
state(msg) ==
  /\ pc = "spin"
  /\ rotation_matrix' = setRotation(msg.orientation)
  /\ ang_v' = msg.angular_velocity
  /\ UNCHANGED <<pos, cmd, unknown, summary, thrust, cmd_pub, pc, received,
                 ref>>

\* Mutant: the command handler keeps the unknowns of the previous solve.
callback_NoReset(a) ==
  /\ pc = "spin"
  /\ received < MaxEvents
  /\ received' = received + 1
  /\ cmd' = [Surge |-> X(a.linear), Sway |-> Y(a.linear),
             Heave |-> Z(a.linear), Roll |-> X(a.angular),
             Pitch |-> Y(a.angular), Yaw |-> Z(a.angular)]
  /\ summary' = [num_iterations |-> 0, termination_type |-> "RUNNING"]
  /\ pc' = "Solve"
  /\ UNCHANGED <<pos, rotation_matrix, ang_v, unknown, thrust, cmd_pub, ref>>

\* void ThrusterController::callback, up to the call of ceres::Solve.
callback(a) ==
  /\ pc = "spin"
  /\ received < MaxEvents
  /\ received' = received + 1
  /\ cmd' = [Surge |-> X(a.linear), Sway |-> Y(a.linear),
             Heave |-> Z(a.linear), Roll |-> X(a.angular),
             Pitch |-> Y(a.angular), Yaw |-> Z(a.angular)]
  /\ unknown' = Zero
  /\ summary' = [num_iterations |-> 0, termination_type |-> "RUNNING"]
  /\ pc' = "Solve"
  /\ UNCHANGED <<pos, rotation_matrix, ang_v, thrust, cmd_pub, ref>>

\* ceres::Solve: one evaluation and, unless it ends the solve, one step.
Solve ==
  /\ pc = "Solve"
  /\ IF ~IsEvaluationValid(unknown)
     THEN /\ summary' = [summary EXCEPT !.termination_type = "FAILURE"]
          /\ pc' = "publish"
          /\ UNCHANGED unknown
     ELSE IF summary.num_iterations >= max_num_iterations
     THEN /\ summary' = [summary EXCEPT !.termination_type = "NO_CONVERGENCE"]
          /\ pc' = "publish"
          /\ UNCHANGED unknown
     ELSE \E best \in {Candidate(unknown, BestStep(unknown))} :
            IF Cost(best) < Cost(unknown)
            THEN /\ unknown' = best
                 /\ summary' = [summary EXCEPT !.num_iterations = @ + 1]
                 /\ UNCHANGED pc
            ELSE /\ summary' =
                      [summary EXCEPT !.termination_type = "CONVERGENCE"]
                 /\ pc' = "publish"
                 /\ UNCHANGED unknown
  /\ UNCHANGED <<pos, rotation_matrix, ang_v, cmd, thrust, cmd_pub, received,
                 ref>>

\* The inputs and the result of the solve that is being published.
Solved ==
  [cmd |-> cmd, rotation_matrix |-> rotation_matrix, ang_v |-> ang_v,
   force |-> unknown]

\* Mutant: the message is published without the solved forces copied in.
Publish_Stale ==
  /\ pc = "publish"
  /\ thrust' = thrust
  /\ cmd_pub' = [count |-> cmd_pub.count + 1, last |-> thrust']
  /\ pc' = "spin"
  /\ UNCHANGED <<pos, rotation_matrix, ang_v, cmd, unknown, summary,
                 received>>

\* void ThrusterController::callback, after ceres::Solve returned.
Publish ==
  /\ pc = "publish"
  /\ thrust' = [force |-> unknown]
  /\ cmd_pub' = [count |-> cmd_pub.count + 1, last |-> thrust']
  /\ pc' = "spin"
  /\ UNCHANGED <<pos, rotation_matrix, ang_v, cmd, unknown, summary,
                 received>>

\* ros::spin(): one callback at a time.  The solve being published may be
\* remembered in ref, once, to be compared with a later one.
Next ==
  \/ \E msg \in ImuMsgs : state(msg)
  \/ \E a \in AccelMsgs : callback(a)
  \/ Solve
  \/ Publish /\ UNCHANGED ref
  \/ Publish /\ ref = NoSolve /\ ref' = Solved

Spec == Init /\ [][Next]_vars

\* A callback that ros::spin() has entered runs to its end.
SpecLive == Spec /\ WF_vars(Solve) /\ WF_vars(Publish /\ UNCHANGED ref)

(***************************************************************************)
(* Properties.                                                             *)
(***************************************************************************)
\* The unknowns that appear in the body of an equation, and the others.
Used == {"surge_port_lo", "surge_stbd_lo", "heave_port_fwd", "heave_stbd_fwd"}

Unused == ThrusterNames \ Used

Abs(v) == IF v < 0 THEN -v ELSE v

ZeroCommand == [Surge |-> 0, Sway |-> 0, Heave |-> 0,
                Roll |-> 0, Pitch |-> 0, Yaw |-> 0]

SurgeOne == [Surge |-> 1000, Sway |-> 0, Heave |-> 0,
             Roll |-> 0, Pitch |-> 0, Yaw |-> 0]

\* Every residual is zero within the tolerance.
ResidualsZero(p) ==
  \A i \in 1..6 :
    IsFinite(Residuals(p)[i]) /\ Abs(Residuals(p)[i]) <= Tolerance

\* The entries of the rotation matrix that the equations read.
RowsXZ(m) == [i \in 1..3 |-> <<X(m[i]), Z(m[i])>>]

\* C1: every force of every published ThrustSolution (and of the thrust
\* message the node holds) lies within [MIN_THRUST, MAX_THRUST], whatever the
\* command and the vehicle state, saturating commands included.
C1_ForcesWithinBounds ==
  \A t \in ThrusterNames :
    /\ MIN_THRUST <= cmd_pub.last.force[t]
    /\ cmd_pub.last.force[t] <= MAX_THRUST
    /\ MIN_THRUST <= thrust.force[t]
    /\ thrust.force[t] <= MAX_THRUST

\* C1 witness: a saturating command was published with a thruster at its
\* upper bound.
C1_Saturated ==
  /\ cmd_pub.count > 0
  /\ pc = "spin"
  /\ cmd = SurgeOne
  /\ \E t \in ThrusterNames : cmd_pub.last.force[t] = MAX_THRUST

\* C2: a solve with the same command and the same vehicle state as an earlier
\* solve of the run ends with the same ten forces, whatever was processed in
\* between; and every solve starts from ten zeros.
C2_Deterministic ==
  /\ (pc = "Solve" /\ summary.num_iterations = 0) => unknown = Zero
  /\ (pc = "publish" /\ ref # NoSolve /\ ref.cmd = cmd
      /\ ref.rotation_matrix = rotation_matrix /\ ref.ang_v = ang_v)
       => ref.force = unknown

\* C2 witness: the second of two solves with identical inputs ends, with
\* forces that are not all zero.
C2_SameInputsAgain ==
  /\ pc = "publish"
  /\ ref # NoSolve
  /\ ref.cmd = cmd
  /\ ref.rotation_matrix = rotation_matrix
  /\ ref.ang_v = ang_v
  /\ unknown # Zero
  /\ ref.force = unknown

\* C3: when the solver converged to a point strictly inside all
\* bounds (the unconstrained least-squares optimum respects the bounds), all
\* six residuals are zero within tolerance.
C3_FeasibleExact ==
  (/\ pc = "publish"
   /\ summary.termination_type = "CONVERGENCE"
   /\ \A t \in ThrusterNames :
        MIN_THRUST < unknown[t] /\ unknown[t] < MAX_THRUST)
    => ResidualsZero(unknown)

\* C4: surge 1.0 m/s^2 at identity orientation and zero angular
\* velocity gives force only on the surge thrusters, a surge acceleration of
\* 1.0 m/s^2 and zero residual on the other five channels.
C4_SurgeOneExact ==
  (pc = "publish" /\ cmd = SurgeOne /\ rotation_matrix = Identity
   /\ ang_v = <<0, 0, 0>>)
    => /\ \A t \in ThrusterNames \ {"surge_port_hi", "surge_stbd_hi",
                                    "surge_port_lo", "surge_stbd_lo"} :
            unknown[t] = 0
       /\ ResidualsZero(unknown)

\* C5: a solve of the all-zero command at zero angular velocity ends with
\* ten zero forces, for every rotation matrix and every earlier solve, and
\* with six zero residuals when the rotation matrix is finite.
C5_ZeroCommandZeroForce ==
  (pc = "publish" /\ cmd = ZeroCommand /\ ang_v = <<0, 0, 0>>)
    => /\ unknown = Zero
       /\ AllFinite(rotation_matrix[1]) =>
            Residuals(unknown) = <<0, 0, 0, 0, 0, 0>>

\* C5 witness: the all-zero command is solved at zero angular velocity, in
\* an orientation other than identity, after a solve that published forces.
C5_ZeroAfterThrust ==
  /\ pc = "publish"
  /\ cmd = ZeroCommand
  /\ ang_v = <<0, 0, 0>>
  /\ rotation_matrix # Identity
  /\ AllFinite(rotation_matrix[1])
  /\ thrust.force # Zero
  /\ unknown = Zero

C7_MalformedRejected ==
  [][ /\ \A msg \in ImuMsgs :
           (MalformedImu(msg) /\ state(msg))
             => UNCHANGED <<rotation_matrix, ang_v>>
      /\ \A a \in AccelMsgs :
           (MalformedAccel(a) /\ callback(a))
             => (UNCHANGED <<cmd, thrust, cmd_pub>> /\ pc' = "spin")
    ]_vars

\* C8: the vehicle state starts as identity and zero; every command event
\* has been answered by exactly one publication when the spinner is idle
\* again; nothing else is dispatched while a command is being handled, so
\* the solve reads the command of its event and the vehicle state of the
\* last inertial event; the message published carries the forces the solve
\* ended with; an inertial event publishes nothing and leaves the command,
\* the unknowns and the thrust message alone.
C8_OneSolveOnePublication ==
  /\ rotation_matrix = Identity /\ ang_v = <<0, 0, 0>>
  /\ [](cmd_pub.count = IF pc = "spin" THEN received ELSE received - 1)
  /\ [][ /\ \A msg \in ImuMsgs :
              state(msg) => UNCHANGED <<cmd, unknown, thrust, cmd_pub>>
         /\ pc # "spin" => UNCHANGED <<cmd, rotation_matrix, ang_v, received>>
         /\ (pc = "spin" /\ pc' # "spin")
              => (pc' = "Solve" /\ received' = received + 1
                  /\ \E a \in AccelMsgs :
                       cmd' = [Surge |-> X(a.linear), Sway |-> Y(a.linear),
                               Heave |-> Z(a.linear), Roll |-> X(a.angular),
                               Pitch |-> Y(a.angular), Yaw |-> Z(a.angular)])
         /\ (pc = "Solve" /\ pc' # "Solve")
              => (pc' = "publish" /\ summary'.termination_type # "RUNNING")
         /\ cmd_pub' # cmd_pub
              => /\ pc = "publish" /\ pc' = "spin"
                 /\ cmd_pub'.count = cmd_pub.count + 1
                 /\ cmd_pub'.last.force = unknown
                 /\ thrust' = cmd_pub'.last
         /\ pc = "publish" => cmd_pub'.count = cmd_pub.count + 1
       ]_vars

\* C8 witness: two commands were answered, the second after an inertial
\* event, by a message with forces.
C8_TwoAnswered ==
  /\ pc = "spin"
  /\ received = 2
  /\ cmd_pub.count = 2
  /\ rotation_matrix # Identity
  /\ cmd_pub.last.force = unknown
  /\ unknown # Zero

\* C9: no solve runs more than 100 iterations; a command handler that
\* started a solve comes back to the spinner, and on its way the solve is
\* followed by the publication of the point the solver held when it
\* stopped, converged or not.
C9_BoundedSolve ==
  /\ [](summary.num_iterations <= 100)
  /\ (pc = "Solve") ~> (pc = "spin")
  /\ [][ /\ (pc = "Solve" /\ pc' # "Solve") => pc' = "publish"
         /\ pc = "publish"
              => (cmd_pub'.count = cmd_pub.count + 1
                  /\ cmd_pub'.last.force = unknown)
       ]_vars

\* C9 witness: a solve stopped by the iteration cap was published.
C9_CapReached ==
  /\ pc = "spin"
  /\ cmd_pub.count > 0
  /\ summary.termination_type = "NO_CONVERGENCE"
  /\ summary.num_iterations = 100
  /\ cmd_pub.last.force = unknown

\* C10: the six unknowns that appear in no equation are zero in every
\* published message and throughout every solve, and no residual changes
\* when one of them changes.
C10_UnusedStayZero ==
  \A t \in Unused :
    /\ cmd_pub.last.force[t] = 0
    /\ thrust.force[t] = 0
    /\ pc # "spin" =>
         /\ unknown[t] = 0
         /\ \A v \in {MIN_THRUST, MAX_THRUST} :
              Residuals([unknown EXCEPT ![t] = v]) = Residuals(unknown)

\* C10 witness: a published message with force on a used thruster.
C10_UsedNonZero ==
  /\ cmd_pub.count > 0
  /\ \E t \in Used : cmd_pub.last.force[t] # 0

====
